---- MODULE Spec2Model ----
(***************************************************************************)
(* Model of the toy payments engine (src/src/main.rs).                      *)
(*                                                                         *)
(* The engine reads a CSV file of transaction records and folds them, one  *)
(* at a time and in input order, into two tables: the transaction table    *)
(* (HashSet<Transaction>, keyed by transaction id) and the client table    *)
(* (HashSet<Client>, keyed by client id).                                  *)
(*                                                                         *)
(* Decimal amounts are modelled exactly as integers counting units of      *)
(* 0.0001 (the scale every amount is rescaled to on parse), so 10.0000 is  *)
(* 100000.  A raw amount field is a mantissa m and a scale s, standing for *)
(* m * 10^(-s).                                                            *)
(***************************************************************************)
EXTENDS Integers, FiniteSets, Sequences, TLC

VARIABLES
    clients,        \* ToyProgram.clients: client id -> Client
    transactions,   \* ToyProgram.transactions: tx id -> Transaction
    pc,             \* position of ToyProgram::process
    nrows,          \* data rows (rows after the header) taken from the reader
    napplied,       \* data rows that reached the body of the for loop
    rec,            \* the record of the last row taken from the reader
    outcome,        \* the arm of process that the last row took
    before,         \* the local `client` before handle_transaction was called
    onlyRow,        \* the first data row, while it is the only one read
    chain,          \* observer of a Dispute and the rows right after it
    net,            \* observer: per account, deposits applied less funds taken out
    negative        \* observer: a row with a negative amount was read

vars == <<clients, transactions, pc, nrows, napplied, rec, outcome, before,
          onlyRow, chain, net, negative>>

----------------------------------------------------------------------------
(* Bounds of the model *)

MaxTx == 2
MaxRows == 5

\* Two clients are enough for a record to name a client that is not the owner
\* of the transaction it refers to.
ClientIds == {1, 2}
TxIds == 1..MaxTx

\* Raw amount fields of the input: "10.0000" and "-4.99995" (the parser takes
\* negative amounts, and amounts with more than four fractional digits).
RawAmounts ==
    { [m |-> 100000, s |-> 4], [m |-> -499995, s |-> 5] }

NoAmount == [m |-> 0, s |-> 0]

DepositOrWithdrawalTypes == {"deposit", "withdrawal"}
ReferenceTypes == {"dispute", "resolve", "chargeback"}

\* The well-formed data rows: type, client, tx, amount.  The amount field of
\* a dispute, resolve or chargeback row is never read.
Rows ==
    [type : DepositOrWithdrawalTypes, client : ClientIds, tx : TxIds,
     amount : RawAmounts]
    \cup
    [type : ReferenceTypes, client : ClientIds, tx : TxIds, amount : {NoAmount}]

NoRow == [type |-> "none", client |-> 0, tx |-> 0, amount |-> NoAmount]

----------------------------------------------------------------------------
(* Decimal parsing *)

Scale == 4

RECURSIVE Pow10(_)
Pow10(n) == IF n = 0 THEN 1 ELSE 10 * Pow10(n - 1)

Abs(x) == IF x < 0 THEN -x ELSE x
Sign(x) == IF x < 0 THEN -1 ELSE 1

\* Decimal::rescale(4): widening the scale multiplies the mantissa; narrowing
\* divides the magnitude and rounds on the first dropped digit (midpoint away
\* from zero).
rescale(d) ==
    IF d.s <= Scale
    THEN d.m * Pow10(Scale - d.s)
    ELSE LET p == Pow10(d.s - Scale)
             q == Abs(d.m) \div p
             digit == (Abs(d.m) \div (p \div 10)) % 10
         IN  Sign(d.m) * (IF digit >= 5 THEN q + 1 ELSE q)

----------------------------------------------------------------------------
(* Client *)

Client_new ==
    [available |-> 0, held |-> 0, locked |-> FALSE, total |-> 0,
     disputes |-> {}]

deposit(self, amount) ==
    [self EXCEPT !.available = self.available + amount]

\* Variant: the total follows the available funds only.
calculate_total_available_only(self) ==
    [self EXCEPT !.total = self.available]

calculate_total(self) ==
    [self EXCEPT !.total = self.available + self.held]

\* Variant: the withdrawal is not guarded by the available funds.
withdrawal_unguarded(self, amount) ==
    [self EXCEPT !.available = self.available - amount]

withdrawal(self, amount) ==
    IF self.available >= amount
    THEN [self EXCEPT !.available = self.available - amount]
    ELSE self

\* Variant: a dispute holds the amount without taking it from available.
dispute_without_debit(self, tx_id, transaction_type, amount) ==
    IF transaction_type = "deposit"
    THEN [self EXCEPT !.disputes = self.disputes \cup {tx_id},
                      !.held = self.held + amount]
    ELSE self

\* Variant: a dispute takes the amount from available without holding it.
dispute_without_hold(self, tx_id, transaction_type, amount) ==
    IF transaction_type = "deposit"
    THEN [self EXCEPT !.disputes = self.disputes \cup {tx_id},
                      !.available = self.available - amount]
    ELSE self

\* Variant: the type of the disputed transaction is not looked at.
dispute_any_type(self, tx_id, transaction_type, amount) ==
    [self EXCEPT !.disputes = self.disputes \cup {tx_id},
                 !.available = self.available - amount,
                 !.held = self.held + amount]

dispute(self, tx_id, transaction_type, amount) ==
    IF transaction_type = "deposit"
    THEN [self EXCEPT !.disputes = self.disputes \cup {tx_id},
                      !.available = self.available - amount,
                      !.held = self.held + amount]
    ELSE self

\* Variant: a resolve does not look for the id in the disputed set.
resolve_unchecked(self, tx_id, amount) ==
    [self EXCEPT !.disputes = self.disputes \ {tx_id},
                 !.available = self.available + amount,
                 !.held = self.held - amount]

\* Variant: a resolve releases the held funds without returning them.
resolve_without_return(self, tx_id, amount) ==
    IF tx_id \in self.disputes
    THEN [self EXCEPT !.disputes = self.disputes \ {tx_id},
                      !.held = self.held - amount]
    ELSE self

resolve(self, tx_id, amount) ==
    IF tx_id \in self.disputes
    THEN [self EXCEPT !.disputes = self.disputes \ {tx_id},
                      !.available = self.available + amount,
                      !.held = self.held - amount]
    ELSE self

\* Variant: a chargeback does not look for the id in the disputed set.
chargeback_unchecked(self, tx_id, amount) ==
    [self EXCEPT !.disputes = self.disputes \ {tx_id},
                 !.held = self.held - amount,
                 !.locked = TRUE]

\* Variant: a chargeback takes the funds back but does not lock the account.
chargeback_without_lock(self, tx_id, amount) ==
    IF tx_id \in self.disputes
    THEN [self EXCEPT !.disputes = self.disputes \ {tx_id},
                      !.held = self.held - amount]
    ELSE self

chargeback(self, tx_id, amount) ==
    IF tx_id \in self.disputes
    THEN [self EXCEPT !.disputes = self.disputes \ {tx_id},
                      !.held = self.held - amount,
                      !.locked = TRUE]
    ELSE self

\* Variant: the locked flag is not looked at.
handle_transaction_ignoring_lock(self, transaction_type, transaction) ==
    calculate_total(
      CASE transaction_type = "deposit" ->
             deposit(self, transaction.amount)
        [] transaction_type = "withdrawal" ->
             withdrawal(self, transaction.amount)
        [] transaction_type = "dispute" ->
             dispute(self, transaction.id, transaction.transaction_type,
                     transaction.amount)
        [] transaction_type = "resolve" ->
             resolve(self, transaction.id, transaction.amount)
        [] transaction_type = "chargeback" ->
             chargeback(self, transaction.id, transaction.amount))

handle_transaction(self, transaction_type, transaction) ==
    IF self.locked
    THEN self
    ELSE calculate_total(
           CASE transaction_type = "deposit" ->
                  deposit(self, transaction.amount)
             [] transaction_type = "withdrawal" ->
                  withdrawal(self, transaction.amount)
             [] transaction_type = "dispute" ->
                  dispute(self, transaction.id, transaction.transaction_type,
                          transaction.amount)
             [] transaction_type = "resolve" ->
                  resolve(self, transaction.id, transaction.amount)
             [] transaction_type = "chargeback" ->
                  chargeback(self, transaction.id, transaction.amount))

----------------------------------------------------------------------------
(* ToyProgram *)

NoTransaction ==
    [id |-> 0, transaction_type |-> "none", client_id |-> 0, amount |-> 0]

\* Variant: the owner of the referenced transaction is not compared with the
\* client of the record.
transaction_from_record_any_owner(txs, record) ==
    IF record.type \in DepositOrWithdrawalTypes
    THEN [transaction_type |-> record.type, some |-> TRUE,
          transaction |-> [id |-> record.tx,
                           transaction_type |-> record.type,
                           client_id |-> record.client,
                           amount |-> rescale(record.amount)]]
    ELSE IF record.tx \in DOMAIN txs
         THEN [transaction_type |-> record.type, some |-> TRUE,
               transaction |-> txs[record.tx]]
         ELSE [transaction_type |-> record.type, some |-> FALSE,
               transaction |-> NoTransaction]

\* The Option<Transaction> of a record: some = FALSE is None.
transaction_from_record(txs, record) ==
    IF record.type \in DepositOrWithdrawalTypes
    THEN [transaction_type |-> record.type, some |-> TRUE,
          transaction |-> [id |-> record.tx,
                           transaction_type |-> record.type,
                           client_id |-> record.client,
                           amount |-> rescale(record.amount)]]
    ELSE IF record.tx \in DOMAIN txs
         THEN IF txs[record.tx].client_id = record.client
              THEN [transaction_type |-> record.type, some |-> TRUE,
                    transaction |-> txs[record.tx]]
              ELSE [transaction_type |-> record.type, some |-> FALSE,
                    transaction |-> NoTransaction]
         ELSE [transaction_type |-> record.type, some |-> FALSE,
               transaction |-> NoTransaction]

\* Variant: every transaction id passes for new.
ensure_globally_unique_transaction_always(txs, t) == TRUE

ensure_globally_unique_transaction(txs, t) == t.id \notin DOMAIN txs

\* HashSet::insert on a set keyed by id: an element equal to one already in
\* the set is not replaced.
InsertTransaction(txs, t) ==
    IF t.id \in DOMAIN txs
    THEN txs
    ELSE [i \in DOMAIN txs \cup {t.id} |-> IF i = t.id THEN t ELSE txs[i]]

\* Variant: the account taken out of the table is not put back when it is
\* locked.
ReplaceClient_losing_locked(cls, id, client) ==
    IF client.locked
    THEN [c \in DOMAIN cls \ {id} |-> cls[c]]
    ELSE [c \in DOMAIN cls \cup {id} |-> IF c = id THEN client ELSE cls[c]]

\* HashSet::remove followed by HashSet::insert of the client with this id.
ReplaceClient(cls, id, client) ==
    [c \in DOMAIN cls \cup {id} |-> IF c = id THEN client ELSE cls[c]]

NoChain ==
    [client |-> 0, tx |-> 0, available |-> 0, held |-> 0, total |-> 0,
     fresh |-> FALSE, stage |-> "none"]

\* The observer of consecutive rows about one deposit.  A Dispute handled on
\* an unlocked account for a deposit it owns opens a chain that keeps the
\* balances before the Dispute, and whether the row before it was that very
\* deposit, handled on an account with nothing on it.  The Resolve or the
\* Chargeback of the same client and deposit in the very next row moves it
\* on, and so does a deposit row for the client right after the Chargeback;
\* any other row clears it.
NextChain(record, handled, client) ==
    IF handled /\ record.type = "dispute" /\ ~client.locked
       /\ record.tx \in DOMAIN transactions
       /\ transactions[record.tx].transaction_type = "deposit"
    THEN [client |-> record.client, tx |-> record.tx,
          available |-> client.available, held |-> client.held,
          total |-> client.total,
          fresh |-> /\ rec.type = "deposit" /\ outcome = "handled"
                    /\ rec.client = record.client /\ rec.tx = record.tx
                    /\ before = Client_new,
          stage |-> "disputed"]
    ELSE IF handled /\ record.type \in {"resolve", "chargeback"}
            /\ chain.stage = "disputed"
            /\ chain.client = record.client /\ chain.tx = record.tx
         THEN [chain EXCEPT !.stage = IF record.type = "resolve"
                                      THEN "resolved" ELSE "chargedback"]
         ELSE IF record.type = "deposit" /\ chain.stage = "chargedback"
                 /\ chain.client = record.client
              THEN [chain EXCEPT !.stage = "deposit_after"]
              ELSE NoChain

\* The observer of what went into and out of each account: a deposit handled
\* on the account while it is unlocked adds its amount; a withdrawal handled
\* while it is unlocked and has the funds takes its amount off; a chargeback
\* handled while it is unlocked, for a deposit in its disputed set, takes the
\* amount of that deposit off.  Nothing else counts.
NextNet(record, client, amount) ==
    LET old == IF record.client \in DOMAIN net THEN net[record.client] ELSE 0
        delta ==
            IF client.locked THEN 0
            ELSE CASE record.type = "deposit" -> amount
                   [] record.type = "withdrawal" ->
                        IF client.available >= amount THEN -amount ELSE 0
                   [] record.type = "chargeback" ->
                        IF record.tx \in client.disputes THEN -amount ELSE 0
                   [] OTHER -> 0
    IN  [c \in DOMAIN net \cup {record.client} |->
            IF c = record.client THEN old + delta ELSE net[c]]

Init ==
    /\ clients = << >>
    /\ transactions = << >>
    /\ pc = "start"
    /\ nrows = 0
    /\ napplied = 0
    /\ rec = NoRow
    /\ outcome = "none"
    /\ before = Client_new
    /\ onlyRow = NoRow
    /\ chain = NoChain
    /\ net = << >>
    /\ negative = FALSE

\* get_from_env or File::open fails: process returns Err, main exits 1.
StartupError ==
    /\ pc = "start"
    /\ pc' = "failed"
    /\ UNCHANGED <<clients, transactions, nrows, napplied, rec, outcome,
                   before, onlyRow, chain, net, negative>>

\* The reader is built with has_headers left at its default (true): the first
\* row of the file is taken as the header and records() starts after it.
OpenReader ==
    /\ pc = "start"
    /\ pc' = "skip"
    /\ UNCHANGED <<clients, transactions, nrows, napplied, rec, outcome,
                   before, onlyRow, chain, net, negative>>

\* reader.records().skip(1): the first record the reader yields is taken and
\* discarded without being looked at.
SkipFirstRecord ==
    /\ pc = "skip"
    /\ nrows < MaxRows
    /\ \E record \in Rows :
         /\ rec' = record
         /\ onlyRow' = record
         /\ negative' = (negative \/ record.amount.m < 0)
    /\ pc' = "loop"
    /\ nrows' = nrows + 1
    /\ outcome' = "skipped"
    /\ before' = Client_new
    /\ chain' = NoChain
    /\ UNCHANGED <<clients, transactions, napplied, net>>

\* A row whose type, client, tx or amount field does not parse: panic.
ParsePanic ==
    /\ pc = "loop"
    /\ pc' = "panicked"
    /\ UNCHANGED <<clients, transactions, nrows, napplied, rec, outcome,
                   before, onlyRow, chain, net, negative>>

\* Variant: the account of the client named on a dropped reference is fetched
\* or created before the reference is looked at.
DropReferenceCreatingAccount ==
    /\ pc = "loop"
    /\ nrows < MaxRows
    /\ \E record \in Rows :
         LET r == transaction_from_record(transactions, record) IN
         /\ r.transaction_type \in ReferenceTypes
         /\ ~r.some
         /\ rec' = record
         /\ outcome' = IF record.tx \in DOMAIN transactions
                       THEN "not_owner" ELSE "unknown_tx"
         /\ clients' = ReplaceClient(clients, record.client,
                          IF record.client \in DOMAIN clients
                          THEN clients[record.client] ELSE Client_new)
         /\ chain' = NextChain(record, FALSE, Client_new)
    /\ nrows' = nrows + 1
    /\ napplied' = napplied + 1
    /\ before' = Client_new
    /\ onlyRow' = NoRow
    /\ UNCHANGED <<transactions, pc, net, negative>>

\* Variant: a reference to a transaction that is not in the table is fatal.
DropReferenceUnknownIsFatal ==
    /\ pc = "loop"
    /\ nrows < MaxRows
    /\ \E record \in Rows :
         LET r == transaction_from_record(transactions, record) IN
         /\ r.transaction_type \in ReferenceTypes
         /\ ~r.some
         /\ rec' = record
         /\ outcome' = IF record.tx \in DOMAIN transactions
                       THEN "not_owner" ELSE "unknown_tx"
         /\ pc' = IF record.tx \in DOMAIN transactions
                  THEN pc ELSE "panicked"
         /\ chain' = NextChain(record, FALSE, Client_new)
    /\ nrows' = nrows + 1
    /\ napplied' = napplied + 1
    /\ before' = Client_new
    /\ onlyRow' = NoRow
    /\ UNCHANGED <<clients, transactions, net, negative>>

\* (Dispute | Resolve | Chargeback, None) => ()
DropReference ==
    /\ pc = "loop"
    /\ nrows < MaxRows
    /\ \E record \in Rows :
         LET r == transaction_from_record(transactions, record) IN
         /\ r.transaction_type \in ReferenceTypes
         /\ ~r.some
         /\ rec' = record
         /\ outcome' = IF record.tx \in DOMAIN transactions
                       THEN "not_owner" ELSE "unknown_tx"
         /\ chain' = NextChain(record, FALSE, Client_new)
    /\ nrows' = nrows + 1
    /\ napplied' = napplied + 1
    /\ before' = Client_new
    /\ onlyRow' = NoRow
    /\ UNCHANGED <<clients, transactions, pc, net, negative>>

\* Variant: no uniqueness check, and the table keeps the latest transaction
\* seen under an id.
DepositOrWithdrawalOverwriting ==
    /\ pc = "loop"
    /\ nrows < MaxRows
    /\ \E record \in Rows :
         LET r == transaction_from_record(transactions, record)
             t == r.transaction
             client == IF t.client_id \in DOMAIN clients
                       THEN clients[t.client_id]
                       ELSE Client_new
         IN
         /\ r.transaction_type \in DepositOrWithdrawalTypes
         /\ r.some
         /\ rec' = record
         /\ negative' = (negative \/ record.amount.m < 0)
         /\ transactions' =
              [i \in DOMAIN transactions \cup {t.id} |->
                 IF i = t.id THEN t ELSE transactions[i]]
         /\ clients' = ReplaceClient(clients, t.client_id,
              handle_transaction(client, r.transaction_type, t))
         /\ outcome' = "handled"
         /\ before' = client
         /\ net' = NextNet(record, client, t.amount)
         /\ chain' = NextChain(record, FALSE, client)
    /\ nrows' = nrows + 1
    /\ napplied' = napplied + 1
    /\ onlyRow' = NoRow
    /\ UNCHANGED pc

\* (Deposit | Withdrawal, Some(t))
DepositOrWithdrawal ==
    /\ pc = "loop"
    /\ nrows < MaxRows
    /\ \E record \in Rows :
         LET r == transaction_from_record(transactions, record)
             t == r.transaction
             unique == ensure_globally_unique_transaction(transactions, t)
             client == IF t.client_id \in DOMAIN clients
                       THEN clients[t.client_id]
                       ELSE Client_new
         IN
         /\ r.transaction_type \in DepositOrWithdrawalTypes
         /\ r.some
         /\ rec' = record
         /\ negative' = (negative \/ record.amount.m < 0)
         /\ IF unique
            THEN /\ transactions' = InsertTransaction(transactions, t)
                 /\ clients' = ReplaceClient(clients, t.client_id,
                      handle_transaction(client, r.transaction_type, t))
                 /\ outcome' = "handled"
                 /\ before' = client
                 /\ net' = NextNet(record, client, t.amount)
            ELSE /\ UNCHANGED <<clients, transactions, net>>
                 /\ outcome' = "duplicate"
                 /\ before' = Client_new
         /\ chain' = NextChain(record, FALSE, client)
    /\ nrows' = nrows + 1
    /\ napplied' = napplied + 1
    /\ onlyRow' = NoRow
    /\ UNCHANGED pc

\* (Dispute | Resolve | Chargeback, Some(t))
DisputeResolveChargeback ==
    /\ pc = "loop"
    /\ nrows < MaxRows
    /\ \E record \in Rows :
         LET r == transaction_from_record(transactions, record)
             t == r.transaction
         IN
         /\ r.transaction_type \in ReferenceTypes
         /\ r.some
         /\ rec' = record
         /\ IF t.client_id \in DOMAIN clients
            THEN LET client == clients[t.client_id] IN
                 /\ clients' = ReplaceClient(clients, t.client_id,
                      handle_transaction(client, r.transaction_type, t))
                 /\ outcome' = "handled"
                 /\ before' = client
                 /\ net' = NextNet(record, client, t.amount)
                 /\ chain' = NextChain(record, TRUE, client)
            ELSE /\ UNCHANGED <<clients, net>>
                 /\ outcome' = "no_client"
                 /\ before' = Client_new
                 /\ chain' = NextChain(record, FALSE, Client_new)
    /\ nrows' = nrows + 1
    /\ napplied' = napplied + 1
    /\ onlyRow' = NoRow
    /\ UNCHANGED <<transactions, pc, negative>>

\* The reader is exhausted: display_clients, Ok(()), exit 0.
EndOfInput ==
    /\ pc \in {"skip", "loop"}
    /\ pc' = "done"
    /\ UNCHANGED <<clients, transactions, nrows, napplied, rec, outcome,
                   before, onlyRow, chain, net, negative>>

Next ==
    \/ StartupError
    \/ OpenReader
    \/ SkipFirstRecord
    \/ ParsePanic
    \/ DropReference
    \/ DepositOrWithdrawal
    \/ DisputeResolveChargeback
    \/ EndOfInput

Spec == Init /\ [][Next]_vars

----------------------------------------------------------------------------
(* Properties *)

\* The account a record for client c is handled on: the one in the client
\* table, or a new one when the client has none yet.
Account(c) == IF c \in DOMAIN clients THEN clients[c] ELSE Client_new

\* The step took a row from the reader into the body of the for loop.
Applied == napplied' = napplied + 1

\* C1: in every reachable state, every account of the client table has
\* total = available + held.
C1_TotalIsAvailablePlusHeld ==
    \A c \in DOMAIN clients :
        clients[c].total = clients[c].available + clients[c].held

\* An account with funds available and funds held at once.
C1_Witness ==
    \E c \in DOMAIN clients :
        /\ clients[c].available # 0
        /\ clients[c].held # 0
        /\ clients[c].total = clients[c].available + clients[c].held

\* C2: once an account is locked it stays locked, and no later record of any
\* type changes its available, held, total or disputed set.
C2_LockedIsFinal ==
    [][\A c \in DOMAIN clients :
          clients[c].locked =>
              c \in DOMAIN clients' /\ clients'[c] = clients[c]]_vars

\* A deposit with a new transaction id was handled on a locked account.
C2_Witness ==
    /\ rec.type = "deposit"
    /\ outcome = "handled"
    /\ before.locked
    /\ clients[rec.client] = before

\* C3: a Deposit or Withdrawal whose transaction id is already in the
\* transaction table changes neither the transaction table nor the client
\* table, whatever client id and amount it carries.
C3_DuplicateIsDropped ==
    [][Applied /\ rec'.type \in DepositOrWithdrawalTypes
         /\ rec'.tx \in DOMAIN transactions
       => UNCHANGED <<clients, transactions>>]_vars

\* A duplicate naming a client without an account, with another amount than
\* the transaction recorded under its id.
C3_Witness ==
    /\ outcome = "duplicate"
    /\ rec.client \notin DOMAIN clients
    /\ rescale(rec.amount) # transactions[rec.tx].amount

\* C4: a Dispute on a deposit of an unlocked account immediately followed by
\* the Resolve of the same deposit leaves available, held and total as they
\* were before the Dispute.
C4_DisputeResolveRoundTrip ==
    chain.stage = "resolved" =>
        /\ clients[chain.client].available = chain.available
        /\ clients[chain.client].held = chain.held
        /\ clients[chain.client].total = chain.total

\* A Resolve was handled right after the Dispute of the same deposit, on an
\* account with funds available.
C4_Witness ==
    /\ chain.stage = "resolved"
    /\ rec.type = "resolve"
    /\ outcome = "handled"
    /\ chain.client = rec.client
    /\ chain.tx = rec.tx
    /\ chain.available > 0

\* C5: a Chargeback on a disputed deposit of amount a of an unlocked account
\* removes the id from the disputed set, takes a from held and from total,
\* leaves available alone and locks the account; Deposit(a), Dispute,
\* Chargeback on an account with nothing on it ends at 0, 0, 0, locked, and a
\* deposit for that client right after changes nothing.
C5_ChargebackStep ==
    ( /\ Applied
      /\ rec'.type = "chargeback"
      /\ rec'.tx \in DOMAIN transactions
      /\ transactions[rec'.tx].client_id = rec'.client
      /\ transactions[rec'.tx].transaction_type = "deposit"
      /\ rec'.client \in DOMAIN clients
      /\ ~clients[rec'.client].locked
      /\ rec'.tx \in clients[rec'.client].disputes )
    => LET old == clients[rec'.client]
           a == transactions[rec'.tx].amount
       IN  clients'[rec'.client] =
               [available |-> old.available,
                held |-> old.held - a,
                total |-> old.total - a,
                locked |-> TRUE,
                disputes |-> old.disputes \ {rec'.tx}]

C5_ScenarioE ==
    (chain.fresh /\ chain.stage \in {"chargedback", "deposit_after"})
    => clients[chain.client] =
           [available |-> 0, held |-> 0, total |-> 0, locked |-> TRUE,
            disputes |-> {}]

C5_ChargebackLocks == [][C5_ChargebackStep /\ C5_ScenarioE']_vars

\* Deposit, Dispute, Chargeback on an account with nothing on it, then a
\* deposit with a new id for the same client.
C5_Witness ==
    /\ chain.fresh
    /\ chain.stage = "deposit_after"
    /\ rec.type = "deposit"
    /\ outcome = "handled"
    /\ rec.client = chain.client
    /\ transactions[chain.tx].amount > 0

\* C6: a Dispute, Resolve or Chargeback whose client is not the client
\* stored for the referenced transaction changes no account and no entry of
\* the transaction table.
C6_NotOwnerIsDropped ==
    [][Applied /\ rec'.type \in ReferenceTypes
         /\ rec'.tx \in DOMAIN transactions
         /\ transactions[rec'.tx].client_id # rec'.client
       => UNCHANGED <<clients, transactions>>]_vars

\* A Dispute on a deposit, by a client that has an account but does not own
\* the deposit.
C6_Witness ==
    /\ outcome = "not_owner"
    /\ rec.type = "dispute"
    /\ rec.client \in DOMAIN clients
    /\ transactions[rec.tx].transaction_type = "deposit"
    /\ transactions[rec.tx].client_id \in DOMAIN clients

\* C7: a Dispute, Resolve or Chargeback that refers to a transaction id not
\* in the transaction table changes no account and no entry of the
\* transaction table, creates no account, and the loop goes on.
C7_UnknownReferenceIsDropped ==
    [][Applied /\ rec'.type \in ReferenceTypes
         /\ rec'.tx \notin DOMAIN transactions
       => UNCHANGED <<clients, transactions>> /\ pc' = "loop"]_vars

\* A reference to an unknown transaction, by a client without an account,
\* while another client has one.
C7_Witness ==
    /\ outcome = "unknown_tx"
    /\ rec.tx \notin DOMAIN transactions
    /\ rec.client \notin DOMAIN clients
    /\ clients # << >>
    /\ pc = "loop"

\* C8: a Withdrawal of amount a with a new transaction id on an unlocked
\* account takes a from available when available >= a, and otherwise leaves
\* available, held, total, locked and the disputed set as they were; held is
\* unchanged in both cases.
C8_Withdrawal ==
    [][Applied /\ rec'.type = "withdrawal"
         /\ rec'.tx \notin DOMAIN transactions
         /\ ~Account(rec'.client).locked
       => LET old == Account(rec'.client)
              a == rescale(rec'.amount)
          IN  /\ rec'.client \in DOMAIN clients'
              /\ clients'[rec'.client].held = old.held
              /\ IF old.available >= a
                 THEN clients'[rec'.client].available = old.available - a
                 ELSE clients'[rec'.client] = old]_vars

\* A withdrawal of more than the funds available on an account that has some.
C8_Witness ==
    /\ rec.type = "withdrawal"
    /\ outcome = "handled"
    /\ ~before.locked
    /\ before.available > 0
    /\ before.available < rescale(rec.amount)
    /\ clients[rec.client] = before

\* C9: every data row after the header is applied, once and in input order;
\* an input whose only data row is a deposit of 10.0000 for client 1 ends
\* with available = 10, held = 0, total = 10, locked = false for client 1.
C9_EveryDataRowApplied ==
    /\ napplied = nrows
    /\ ( /\ pc = "done"
         /\ onlyRow = [type |-> "deposit", client |-> 1, tx |-> 1,
                       amount |-> [m |-> 100000, s |-> 4]] )
       => /\ 1 \in DOMAIN clients
          /\ clients[1] = [available |-> 100000, held |-> 0,
                           total |-> 100000, locked |-> FALSE,
                           disputes |-> {}]

\* C10: an entry of the transaction table is never removed, and its type,
\* client id and amount never change.
C10_TransactionsWriteOnce ==
    [][\A t \in DOMAIN transactions :
          t \in DOMAIN transactions' /\ transactions'[t] = transactions[t]]_vars

\* A duplicate of a recorded id that carries another type and another client.
C10_Witness ==
    /\ outcome = "duplicate"
    /\ rec.type # transactions[rec.tx].transaction_type
    /\ rec.client # transactions[rec.tx].client_id

\* The client ids of the accepted transactions: the Deposits and Withdrawals
\* that passed the uniqueness check are the entries of the transaction table.
AcceptedClients == { transactions[t].client_id : t \in DOMAIN transactions }

\* C11: in every reachable state the client table has an account for each
\* client id on an accepted transaction and for no other client id; an
\* account is created with available = held = total = 0, unlocked and with
\* no disputes, and an account is never deleted.
C11_AccountsOfAcceptedClients ==
    [][ /\ DOMAIN clients' = AcceptedClients'
        /\ DOMAIN clients \subseteq DOMAIN clients'
        /\ \A c \in DOMAIN clients' \ DOMAIN clients :
              /\ c = rec'.client
              /\ before' = [available |-> 0, held |-> 0, total |-> 0,
                            locked |-> FALSE, disputes |-> {}]
              /\ clients'[c].held = 0
              /\ clients'[c].disputes = {}
              /\ ~clients'[c].locked
              /\ clients'[c].total = clients'[c].available
              /\ clients'[c].available =
                    IF rec'.type = "deposit" THEN rescale(rec'.amount)
                    ELSE IF 0 >= rescale(rec'.amount)
                         THEN 0 - rescale(rec'.amount) ELSE 0 ]_vars

\* A second account was just created by the first deposit of its client; the
\* account of the other client is still there.
C11_Witness ==
    /\ Cardinality(DOMAIN clients) = 2
    /\ rec.type = "deposit"
    /\ outcome = "handled"
    /\ before = Client_new
    /\ clients[rec.client].available = rescale(rec.amount)
    /\ \A t \in DOMAIN transactions :
          t # rec.tx => transactions[t].client_id # rec.client

\* C12: a Dispute on an unlocked account for a Deposit the client owns adds
\* the id to the disputed set, takes the stored amount from available and
\* adds it to held, and leaves total alone; Deposit(10) then Dispute on an
\* account with nothing on it gives available = 0, held = 10, total = 10.
C12_DisputeStep ==
    ( /\ Applied
      /\ rec'.type = "dispute"
      /\ rec'.tx \in DOMAIN transactions
      /\ transactions[rec'.tx].client_id = rec'.client
      /\ transactions[rec'.tx].transaction_type = "deposit"
      /\ rec'.client \in DOMAIN clients
      /\ ~clients[rec'.client].locked )
    => LET old == clients[rec'.client]
           a == transactions[rec'.tx].amount
       IN  clients'[rec'.client] =
               [available |-> old.available - a,
                held |-> old.held + a,
                total |-> old.total,
                locked |-> FALSE,
                disputes |-> old.disputes \cup {rec'.tx}]

C12_ScenarioC ==
    ( /\ chain.fresh
      /\ chain.stage = "disputed"
      /\ transactions[chain.tx].amount = 100000 )
    => clients[chain.client] =
           [available |-> 0, held |-> 100000, total |-> 100000,
            locked |-> FALSE, disputes |-> {chain.tx}]

C12_DisputeHolds == [][C12_DisputeStep /\ C12_ScenarioC']_vars

\* Deposit(10) and then its Dispute, on an account with nothing on it.
C12_Witness ==
    /\ chain.fresh
    /\ chain.stage = "disputed"
    /\ rec.type = "dispute"
    /\ outcome = "handled"
    /\ transactions[chain.tx].amount = 100000
    /\ before.available = 100000

\* C13: a Dispute that refers to a recorded Withdrawal of the stated client
\* leaves the account's available, held, total, locked flag and disputed set
\* as they were.
C13_DisputeOnWithdrawalIsNoop ==
    [][Applied /\ rec'.type = "dispute"
         /\ rec'.tx \in DOMAIN transactions
         /\ transactions[rec'.tx].client_id = rec'.client
         /\ transactions[rec'.tx].transaction_type = "withdrawal"
       => /\ rec'.client \in DOMAIN clients
          /\ clients' = clients]_vars

\* A Dispute on a withdrawal was handled on an unlocked account that has
\* funds available.
C13_Witness ==
    /\ rec.type = "dispute"
    /\ outcome = "handled"
    /\ transactions[rec.tx].transaction_type = "withdrawal"
    /\ transactions[rec.tx].amount > 0
    /\ ~before.locked
    /\ before.available > 0
    /\ clients[rec.client] = before

\* C14: a Resolve or a Chargeback for a transaction id that is not in the
\* disputed set of the stated client (never disputed, already resolved, or
\* ahead of its Dispute) leaves the account's available, held, total, locked
\* flag and disputed set as they were.
C14_NotDisputedIsNoop ==
    [][Applied /\ rec'.type \in {"resolve", "chargeback"}
         /\ rec'.tx \notin Account(rec'.client).disputes
       => clients' = clients]_vars

\* A Resolve was handled ahead of any Dispute, for a deposit of an unlocked
\* account.
C14_Witness ==
    /\ rec.type = "resolve"
    /\ outcome = "handled"
    /\ transactions[rec.tx].transaction_type = "deposit"
    /\ transactions[rec.tx].amount > 0
    /\ ~before.locked
    /\ rec.tx \notin before.disputes
    /\ clients[rec.client] = before

\* The sum of the stored amounts of a set of recorded transaction ids.
RECURSIVE SumAmounts(_)
SumAmounts(S) ==
    IF S = {} THEN 0
    ELSE LET t == CHOOSE x \in S : TRUE
         IN  transactions[t].amount + SumAmounts(S \ {t})

\* C15: in every reachable state the held funds of an account are the sum of
\* the stored amounts of the transactions in its disputed set; a second
\* Dispute on a deposit under dispute holds nothing more, and held is 0 when
\* the disputed set is empty.
C15_HeldIsSumOfDisputed ==
    \A c \in DOMAIN clients :
        clients[c].held = SumAmounts(clients[c].disputes)

\* Every Deposit and Withdrawal amount read from the input so far, the
\* discarded first row and dropped duplicates included, is non-negative.
NonNegativeAmounts == ~negative

\* C16, as stated: when every Deposit and Withdrawal amount is non-negative,
\* available and held are non-negative for every account in every reachable
\* state, also after a Dispute on a deposit whose funds were withdrawn.
C16_BalancesNonNegative ==
    NonNegativeAmounts =>
        \A c \in DOMAIN clients :
            clients[c].available >= 0 /\ clients[c].held >= 0

\* C16, amended: when every Deposit and Withdrawal amount is non-negative,
\* held is non-negative for every account in every reachable state, and no
\* record other than a Dispute takes the available funds of an account from
\* non-negative to negative.
C16_HeldNonNegative ==
    NonNegativeAmounts => \A c \in DOMAIN clients : clients[c].held >= 0

C16_OnlyDisputeOverdraws ==
    (NonNegativeAmounts' /\ ~(Applied /\ rec'.type = "dispute"))
    => \A c \in DOMAIN clients' :
          Account(c).available >= 0 => clients'[c].available >= 0

C16_NonNegativeButForDispute ==
    [][C16_HeldNonNegative' /\ C16_OnlyDisputeOverdraws]_vars

\* With non-negative amounts only, a Dispute on a deposit whose funds were
\* withdrawn has left available negative and held positive.
C16_Witness ==
    /\ NonNegativeAmounts
    /\ rec.type = "dispute"
    /\ outcome = "handled"
    /\ before.available = 0
    /\ before.held = 0
    /\ clients[rec.client].available < 0
    /\ clients[rec.client].held > 0
    /\ \E t \in DOMAIN transactions :
          /\ transactions[t].transaction_type = "withdrawal"
          /\ transactions[t].client_id = rec.client

\* C17: in every reachable state the total of every account is the sum of the
\* deposits applied to it while unlocked, less its withdrawals that
\* succeeded, less the deposits charged back on it; a Dispute or a Resolve
\* never changes total.
C17_TotalIsNetOfMovements ==
    /\ DOMAIN net = DOMAIN clients
    /\ \A c \in DOMAIN clients : clients[c].total = net[c]

\* An account with a deposit of 10, a withdrawal of 10 that succeeded and a
\* Dispute of the deposit behind it: total is 0 with 10 held.
C17_Witness ==
    \E c \in DOMAIN clients :
        /\ clients[c].total = 0
        /\ clients[c].held = 100000
        /\ net[c] = 0
        /\ \E t \in DOMAIN transactions :
              /\ transactions[t].transaction_type = "withdrawal"
              /\ transactions[t].client_id = c
              /\ transactions[t].amount = 100000

\* C18: applying one record changes at most the account of the client id
\* stated on the record; every other account keeps its available, held,
\* total, locked flag and disputed set, and no other account appears.
C18_OnlyStatedClientChanges ==
    [][ /\ Applied =>
             /\ DOMAIN clients' \subseteq DOMAIN clients \cup {rec'.client}
             /\ \A c \in DOMAIN clients :
                   c # rec'.client =>
                       c \in DOMAIN clients' /\ clients'[c] = clients[c]
        /\ ~Applied => clients' = clients ]_vars

\* A reference record changed the account of its client while the other
\* client has an account with funds, and owns a deposit as well.
C18_Witness ==
    /\ rec.type \in ReferenceTypes
    /\ outcome = "handled"
    /\ clients[rec.client] # before
    /\ \E c \in DOMAIN clients :
          /\ c # rec.client
          /\ clients[c].available # 0
          /\ \E t \in DOMAIN transactions :
                /\ transactions[t].client_id = c
                /\ transactions[t].transaction_type = "deposit"

\* C19: in every reachable state every id in the disputed set of an account
\* is the id of a transaction of the transaction table whose stored type is
\* Deposit and whose stored client id is the id of the account.
C19_DisputedAreOwnDeposits ==
    \A c \in DOMAIN clients :
        \A t \in clients[c].disputes :
            /\ t \in DOMAIN transactions
            /\ transactions[t].transaction_type = "deposit"
            /\ transactions[t].client_id = c

\* A Dispute on a withdrawal was handled on an unlocked account that has a
\* deposit under dispute: the withdrawal did not join the disputed set.
C19_Witness ==
    /\ rec.type = "dispute"
    /\ outcome = "handled"
    /\ transactions[rec.tx].transaction_type = "withdrawal"
    /\ ~before.locked
    /\ clients[rec.client].disputes # {}
    /\ rec.tx \notin clients[rec.client].disputes

\* C20: in every reachable state every transaction of the transaction table
\* has an account for its stored client id in the client table, so a
\* Dispute, Resolve or Chargeback that passes the unknown-reference and
\* ownership checks finds the account, and the arm for a client without an
\* account is never taken.
C20_OwnersHaveAccounts ==
    /\ \A t \in DOMAIN transactions :
          transactions[t].client_id \in DOMAIN clients
    /\ outcome # "no_client"

\* A Chargeback passed both checks and found the account of its client,
\* which it locked.
C20_Witness ==
    /\ rec.type = "chargeback"
    /\ outcome = "handled"
    /\ ~before.locked
    /\ clients[rec.client].locked
    /\ transactions[rec.tx].client_id = rec.client

====
